---- MODULE Spec2Model ----
(***************************************************************************)
(* The interview question generator of src/app.py: the response parser    *)
(* with its fallback list, the prompt builder, and the session of the     *)
(* page (one run of main() per user interaction).                          *)
(*                                                                         *)
(* A text is a sequence of one-character strings; indices and slices of   *)
(* the text operators are Python's (0-based, end exclusive).              *)
(***************************************************************************)
EXTENDS Integers, Sequences, FiniteSets, TLC

VARIABLES
    line,                 \* one line of a reply, as the parser's loop sees it
    line_records,         \* the records the loop body appended for that line
    response_lines,       \* the lines the service's reply is made of
    response_text,        \* response.text
    num_questions,        \* the slider's value
    questions,            \* what generate_questions_with_gemini returned
    session_state,        \* st.session_state: a dictionary from keys to values
    clicked,              \* the button whose click started the last run of main()
    messages,             \* the st.error/warning/success/info calls of that run
    api_outcome,          \* "none" / "raised" / "returned": the external call of that run
    displayed,            \* whether that run rendered the results section
    difficulty_filter,    \* the two filter widgets' values
    category_filter,
    filtered_questions,   \* the filtered list that run displayed
    export_offered,       \* whether that run rendered the export section
    questions_json,       \* the list serialised for the JSON download
    resume_text,          \* the text extracted from the uploaded resume
    job_description,      \* the form's text inputs and selectors
    skills_input,
    experience_level,
    interview_type,
    technical_focus,
    company_info,
    prompt,               \* the prompt handed to model.generate_content
    phase                 \* "input" / "done" for a function applied once, "session"

Min(a, b) == IF a < b THEN a ELSE b
Max(a, b) == IF a > b THEN a ELSE b

\* s[a:b] and s[a:] for 0 <= a, 0 <= b
Slice(s, a, b) == SubSeq(s, a + 1, Min(b, Len(s)))
SliceFrom(s, a) == SubSeq(s, a + 1, Len(s))

\* c in s
Contains(s, c) == \E i \in 1..Len(s) : s[i] = c

\* s.find(c): the 0-based index of the first c, -1 when there is none
Find(s, c) ==
    IF Contains(s, c)
    THEN (CHOOSE i \in 1..Len(s) : s[i] = c /\ \A j \in 1..(i - 1) : s[j] # c) - 1
    ELSE -1

\* the characters str.strip() removes
Whitespace == {" ", "\t", "\n", "\r", "\f"}

\* s.strip()
Strip(s) ==
    LET keep == {i \in 1..Len(s) : s[i] \notin Whitespace}
    IN  IF keep = {} THEN << >>
        ELSE SubSeq(s, CHOOSE i \in keep : \A j \in keep : i <= j,
                       CHOOSE i \in keep : \A j \in keep : i >= j)

\* s.split(sep) for a one-character sep
RECURSIVE Split(_, _)
Split(s, sep) ==
    LET i == Find(s, sep)
    IN  IF i = -1 THEN <<s>>
        ELSE <<Slice(s, 0, i)>> \o Split(SliceFrom(s, i + 1), sep)

\* [part.strip() for part in pieces]
StripAll(pieces) == [i \in 1..Len(pieces) |-> Strip(pieces[i])]

\* sep.join(pieces)
RECURSIVE Join(_, _)
Join(pieces, sep) ==
    IF pieces = << >> THEN << >>
    ELSE IF Len(pieces) = 1 THEN pieces[1]
    ELSE pieces[1] \o <<sep>> \o Join(Tail(pieces), sep)

\* the dataclass InterviewQuestion(category, question, difficulty, focus_area)
InterviewQuestion(category, question, difficulty, focus_area) ==
    [category |-> category, question |-> question,
     difficulty |-> difficulty, focus_area |-> focus_area]

(* Literal texts *)

PromptText0 ==
    <<"\n", "Y", "o", "u", " ", "a", "r", "e", " ", "a", "n", " ", "e", "x", "p", "e",
      "r", "t", " ", "t", "e", "c", "h", "n", "i", "c", "a", "l", " ", "i", "n", "t",
      "e", "r", "v", "i", "e", "w", "e", "r", ".", " ", "B", "a", "s", "e", "d", " ",
      "o", "n", " ", "t", "h", "e", " ", "p", "r", "o", "v", "i", "d", "e", "d", " ",
      "r", "e", "s", "u", "m", "e", ",", " ", "j", "o", "b", " ", "d", "e", "s", "c",
      "r", "i", "p", "t", "i", "o", "n", ",", " ", "a", "n", "d", " ", "r", "e", "q",
      "u", "i", "r", "e", "d", " ", "s", "k", "i", "l", "l", "s", ",", " ", "g", "e",
      "n", "e", "r", "a", "t", "e", " ">>

PromptText1 ==
    <<" ", "h", "i", "g", "h", "l", "y", " ", "r", "e", "l", "e", "v", "a", "n", "t",
      " ", "i", "n", "t", "e", "r", "v", "i", "e", "w", " ", "q", "u", "e", "s", "t",
      "i", "o", "n", "s", ".", "\n", "\n", "R", "E", "S", "U", "M", "E", " ", "C", "O",
      "N", "T", "E", "N", "T", ":", "\n">>

PromptText2 ==
    <<"\n", "\n", "J", "O", "B", " ", "D", "E", "S", "C", "R", "I", "P", "T", "I", "O",
      "N", ":", "\n">>

PromptText3 ==
    <<"\n", "\n", "R", "E", "Q", "U", "I", "R", "E", "D", " ", "S", "K", "I", "L", "L",
      "S", ":", "\n">>

PromptText4 ==
    <<"\n", "\n", "G", "e", "n", "e", "r", "a", "t", "e", " ", "e", "x", "a", "c", "t",
      "l", "y", " ">>

PromptText5 ==
    <<" ", "i", "n", "t", "e", "r", "v", "i", "e", "w", " ", "q", "u", "e", "s", "t",
      "i", "o", "n", "s", ".", " ", "F", "o", "r", " ", "e", "a", "c", "h", " ", "q",
      "u", "e", "s", "t", "i", "o", "n", ",", " ", "f", "o", "r", "m", "a", "t", " ",
      "i", "t", " ", "a", "s", ":", "\n", "[", "C", "a", "t", "e", "g", "o", "r", "y",
      "|", "D", "i", "f", "f", "i", "c", "u", "l", "t", "y", "|", "F", "o", "c", "u",
      "s", " ", "A", "r", "e", "a", "]", " ", "Q", "u", "e", "s", "t", "i", "o", "n",
      " ", "t", "e", "x", "t", "\n", "\n", "W", "h", "e", "r", "e", ":", "\n", "-", " ",
      "C", "a", "t", "e", "g", "o", "r", "y", ":", " ", "T", "e", "c", "h", "n", "i",
      "c", "a", "l", ",", " ", "B", "e", "h", "a", "v", "i", "o", "r", "a", "l", ",",
      " ", "o", "r", " ", "E", "x", "p", "e", "r", "i", "e", "n", "c", "e", "\n", "-",
      " ", "D", "i", "f", "f", "i", "c", "u", "l", "t", "y", ":", " ", "E", "a", "s",
      "y", ",", " ", "M", "e", "d", "i", "u", "m", ",", " ", "o", "r", " ", "H", "a",
      "r", "d", "\n", "-", " ", "F", "o", "c", "u", "s", " ", "A", "r", "e", "a", ":",
      " ", "T", "h", "e", " ", "s", "p", "e", "c", "i", "f", "i", "c", " ", "s", "k",
      "i", "l", "l", " ", "o", "r", " ", "a", "r", "e", "a", " ", "b", "e", "i", "n",
      "g", " ", "t", "e", "s", "t", "e", "d", "\n", "\n", "E", "x", "a", "m", "p", "l",
      "e", "s", ":", "\n", "[", "T", "e", "c", "h", "n", "i", "c", "a", "l", "|", "M",
      "e", "d", "i", "u", "m", "|", "P", "y", "t", "h", "o", "n", " ", "P", "r", "o",
      "g", "r", "a", "m", "m", "i", "n", "g", "]", " ", "C", "a", "n", " ", "y", "o",
      "u", " ", "e", "x", "p", "l", "a", "i", "n", " ", "t", "h", "e", " ", "d", "i",
      "f", "f", "e", "r", "e", "n", "c", "e", " ", "b", "e", "t", "w", "e", "e", "n",
      " ", "l", "i", "s", "t", " ", "c", "o", "m", "p", "r", "e", "h", "e", "n", "s",
      "i", "o", "n", "s", " ", "a", "n", "d", " ", "g", "e", "n", "e", "r", "a", "t",
      "o", "r", " ", "e", "x", "p", "r", "e", "s", "s", "i", "o", "n", "s", " ", "i",
      "n", " ", "P", "y", "t", "h", "o", "n", "?", "\n", "[", "B", "e", "h", "a", "v",
      "i", "o", "r", "a", "l", "|", "E", "a", "s", "y", "|", "T", "e", "a", "m", " ",
      "C", "o", "l", "l", "a", "b", "o", "r", "a", "t", "i", "o", "n", "]", " ", "T",
      "e", "l", "l", " ", "m", "e", " ", "a", "b", "o", "u", "t", " ", "a", " ", "t",
      "i", "m", "e", " ", "w", "h", "e", "n", " ", "y", "o", "u", " ", "h", "a", "d",
      " ", "t", "o", " ", "w", "o", "r", "k", " ", "w", "i", "t", "h", " ", "a", " ",
      "d", "i", "f", "f", "i", "c", "u", "l", "t", " ", "t", "e", "a", "m", " ", "m",
      "e", "m", "b", "e", "r", ".", "\n", "[", "E", "x", "p", "e", "r", "i", "e", "n",
      "c", "e", "|", "H", "a", "r", "d", "|", "P", "r", "o", "b", "l", "e", "m", " ",
      "S", "o", "l", "v", "i", "n", "g", "]", " ", "D", "e", "s", "c", "r", "i", "b",
      "e", " ", "t", "h", "e", " ", "m", "o", "s", "t", " ", "c", "h", "a", "l", "l",
      "e", "n", "g", "i", "n", "g", " ", "t", "e", "c", "h", "n", "i", "c", "a", "l",
      " ", "p", "r", "o", "b", "l", "e", "m", " ", "y", "o", "u", "'", "v", "e", " ",
      "s", "o", "l", "v", "e", "d", " ", "a", "n", "d", " ", "y", "o", "u", "r", " ",
      "a", "p", "p", "r", "o", "a", "c", "h", ".", "\n", "\n", "R", "e", "q", "u", "i",
      "r", "e", "m", "e", "n", "t", "s", " ", "f", "o", "r", " ", "t", "h", "e", " ",
      "q", "u", "e", "s", "t", "i", "o", "n", "s", ":", "\n", "1", ".", " ", "M", "a",
      "k", "e", " ", "t", "h", "e", "m", " ", "s", "p", "e", "c", "i", "f", "i", "c",
      " ", "t", "o", " ", "t", "h", "e", " ", "c", "a", "n", "d", "i", "d", "a", "t",
      "e", "'", "s", " ", "b", "a", "c", "k", "g", "r", "o", "u", "n", "d", " ", "f",
      "r", "o", "m", " ", "t", "h", "e", "i", "r", " ", "r", "e", "s", "u", "m", "e",
      "\n", "2", ".", " ", "E", "n", "s", "u", "r", "e", " ", "t", "h", "e", "y", " ",
      "t", "e", "s", "t", " ", "s", "k", "i", "l", "l", "s", " ", "m", "e", "n", "t",
      "i", "o", "n", "e", "d", " ", "i", "n", " ", "t", "h", "e", " ", "j", "o", "b",
      " ", "d", "e", "s", "c", "r", "i", "p", "t", "i", "o", "n", "\n", "3", ".", " ",
      "I", "n", "c", "l", "u", "d", "e", " ", "a", " ", "m", "i", "x", " ", "o", "f",
      " ", "t", "e", "c", "h", "n", "i", "c", "a", "l", " ", "a", "n", "d", " ", "b",
      "e", "h", "a", "v", "i", "o", "r", "a", "l", " ", "q", "u", "e", "s", "t", "i",
      "o", "n", "s", "\n", "4", ".", " ", "V", "a", "r", "y", " ", "t", "h", "e", " ",
      "d", "i", "f", "f", "i", "c", "u", "l", "t", "y", " ", "l", "e", "v", "e", "l",
      "s", " ", "a", "p", "p", "r", "o", "p", "r", "i", "a", "t", "e", "l", "y", "\n",
      "5", ".", " ", "M", "a", "k", "e", " ", "t", "h", "e", "m", " ", "p", "r", "a",
      "c", "t", "i", "c", "a", "l", " ", "a", "n", "d", " ", "r", "e", "l", "e", "v",
      "a", "n", "t", " ", "t", "o", " ", "t", "h", "e", " ", "r", "o", "l", "e", "\n",
      "\n", "G", "e", "n", "e", "r", "a", "t", "e", " ">>

PromptText6 ==
    <<" ", "q", "u", "e", "s", "t", "i", "o", "n", "s", " ", "n", "o", "w", " ", "i",
      "n", " ", "t", "h", "e", " ", "s", "p", "e", "c", "i", "f", "i", "e", "d", " ",
      "f", "o", "r", "m", "a", "t", ":", "\n">>

ContextText0 ==
    <<"\n", " ", " ", " ", " ", " ", " ", " ", " ", "A", "d", "d", "i", "t", "i", "o",
      "n", "a", "l", " ", "C", "o", "n", "t", "e", "x", "t", ":", "\n", " ", " ", " ",
      " ", " ", " ", " ", " ", "-", " ", "E", "x", "p", "e", "r", "i", "e", "n", "c",
      "e", " ", "L", "e", "v", "e", "l", ":", " ">>

ContextText1 ==
    <<"\n", " ", " ", " ", " ", " ", " ", " ", " ", "-", " ", "I", "n", "t", "e", "r",
      "v", "i", "e", "w", " ", "T", "y", "p", "e", ":", " ">>

ContextText2 ==
    <<"\n", " ", " ", " ", " ", " ", " ", " ", " ", "-", " ", "T", "e", "c", "h", "n",
      "i", "c", "a", "l", " ", "F", "o", "c", "u", "s", ":", " ">>

ContextText3 ==
    <<"\n", " ", " ", " ", " ", " ", " ", " ", " ">>

CompanyLabel ==
    <<"\n", "-", " ", "C", "o", "m", "p", "a", "n", "y", "/", "I", "n", "d", "u", "s",
      "t", "r", "y", ":", " ">>

TechnicalFocusOptions ==
  <<
    <<"B", "a", "l", "a", "n", "c", "e", "d", " ", "(", "5", "0", "%", " ", "T", "e",
      "c", "h", "n", "i", "c", "a", "l", ")">>,
    <<"T", "e", "c", "h", "n", "i", "c", "a", "l", " ", "H", "e", "a", "v", "y", " ",
      "(", "7", "0", "%", " ", "T", "e", "c", "h", "n", "i", "c", "a", "l", ")">>,
    <<"B", "e", "h", "a", "v", "i", "o", "r", "a", "l", " ", "H", "e", "a", "v", "y",
      " ", "(", "3", "0", "%", " ", "T", "e", "c", "h", "n", "i", "c", "a", "l", ")">>
  >>

ExperienceLevelOptions ==
  <<
    <<"E", "n", "t", "r", "y", " ", "L", "e", "v", "e", "l", " ", "(", "0", "-", "2",
      " ", "y", "e", "a", "r", "s", ")">>,
    <<"M", "i", "d", " ", "L", "e", "v", "e", "l", " ", "(", "3", "-", "5", " ", "y",
      "e", "a", "r", "s", ")">>,
    <<"S", "e", "n", "i", "o", "r", " ", "L", "e", "v", "e", "l", " ", "(", "6", "-",
      "1", "0", " ", "y", "e", "a", "r", "s", ")">>,
    <<"L", "e", "a", "d", "/", "P", "r", "i", "n", "c", "i", "p", "a", "l", " ", "(",
      "1", "0", "+", " ", "y", "e", "a", "r", "s", ")">>
  >>

InterviewTypeOptions ==
  <<
    <<"G", "e", "n", "e", "r", "a", "l", " ", "T", "e", "c", "h", "n", "i", "c", "a",
      "l", " ", "I", "n", "t", "e", "r", "v", "i", "e", "w">>,
    <<"S", "y", "s", "t", "e", "m", " ", "D", "e", "s", "i", "g", "n", " ", "F", "o",
      "c", "u", "s">>,
    <<"C", "o", "d", "i", "n", "g", " ", "F", "o", "c", "u", "s">>,
    <<"B", "e", "h", "a", "v", "i", "o", "r", "a", "l", " ", "F", "o", "c", "u", "s">>,
    <<"M", "i", "x", "e", "d", " ", "I", "n", "t", "e", "r", "v", "i", "e", "w">>
  >>

StrAll ==
    <<"A", "l", "l">>

StrEasy ==
    <<"E", "a", "s", "y">>

StrMedium ==
    <<"M", "e", "d", "i", "u", "m">>

StrHard ==
    <<"H", "a", "r", "d">>

StrTechnical ==
    <<"T", "e", "c", "h", "n", "i", "c", "a", "l">>

StrBehavioral ==
    <<"B", "e", "h", "a", "v", "i", "o", "r", "a", "l">>

LineRest ==
    <<"[", "T", "e", "c", "h", "n", "i", "c", "a", "l", "|", "H", "a", "r", "d", "|",
      "A", "P", "I", "s", "]", " ", "W", "h", "a", "t", " ", "i", "s", " ", "R", "E",
      "S", "T", "?">>

LineTeam ==
    <<" ", "[", "B", "e", "h", "a", "v", "i", "o", "r", "a", "l", " ", "|", " ", "E",
      "a", "s", "y", "|", "G", "i", "t", "|", "x", "]", " ", "W", "h", "y", "?", " ">>

LineTwoParts ==
    <<"[", "A", "|", "B", "]", " ", "n", "o">>

StrAPIs ==
    <<"A", "P", "I", "s">>

StrWhatisREST ==
    <<"W", "h", "a", "t", " ", "i", "s", " ", "R", "E", "S", "T", "?">>

StrGit ==
    <<"G", "i", "t">>

StrWhy ==
    <<"W", "h", "y", "?">>

\* the hardcoded fallback list
fallback_questions ==
  <<
    InterviewQuestion(
      <<"T", "e", "c", "h", "n", "i", "c", "a", "l">>,
      <<"T", "e", "l", "l", " ", "m", "e", " ", "a", "b", "o", "u", "t", " ", "y", "o",
        "u", "r", " ", "t", "e", "c", "h", "n", "i", "c", "a", "l", " ", "b", "a", "c",
        "k", "g", "r", "o", "u", "n", "d", " ", "a", "n", "d", " ", "t", "h", "e", " ",
        "t", "e", "c", "h", "n", "o", "l", "o", "g", "i", "e", "s", " ", "y", "o", "u",
        "'", "r", "e", " ", "m", "o", "s", "t", " ", "c", "o", "m", "f", "o", "r", "t",
        "a", "b", "l", "e", " ", "w", "i", "t", "h", ".">>,
      <<"E", "a", "s", "y">>,
      <<"G", "e", "n", "e", "r", "a", "l", " ", "T", "e", "c", "h", "n", "i", "c", "a",
        "l">>),
    InterviewQuestion(
      <<"E", "x", "p", "e", "r", "i", "e", "n", "c", "e">>,
      <<"W", "a", "l", "k", " ", "m", "e", " ", "t", "h", "r", "o", "u", "g", "h", " ",
        "a", " ", "c", "h", "a", "l", "l", "e", "n", "g", "i", "n", "g", " ", "p", "r",
        "o", "j", "e", "c", "t", " ", "y", "o", "u", "'", "v", "e", " ", "w", "o", "r",
        "k", "e", "d", " ", "o", "n", " ", "r", "e", "c", "e", "n", "t", "l", "y", ".">>,
      <<"M", "e", "d", "i", "u", "m">>,
      <<"P", "r", "o", "j", "e", "c", "t", " ", "E", "x", "p", "e", "r", "i", "e", "n",
        "c", "e">>),
    InterviewQuestion(
      <<"B", "e", "h", "a", "v", "i", "o", "r", "a", "l">>,
      <<"H", "o", "w", " ", "d", "o", " ", "y", "o", "u", " ", "a", "p", "p", "r", "o",
        "a", "c", "h", " ", "l", "e", "a", "r", "n", "i", "n", "g", " ", "n", "e", "w",
        " ", "t", "e", "c", "h", "n", "o", "l", "o", "g", "i", "e", "s", " ", "o", "r",
        " ", "s", "k", "i", "l", "l", "s", "?">>,
      <<"E", "a", "s", "y">>,
      <<"L", "e", "a", "r", "n", "i", "n", "g", " ", "A", "b", "i", "l", "i", "t", "y">>),
    InterviewQuestion(
      <<"T", "e", "c", "h", "n", "i", "c", "a", "l">>,
      <<"D", "e", "s", "c", "r", "i", "b", "e", " ", "y", "o", "u", "r", " ", "e", "x",
        "p", "e", "r", "i", "e", "n", "c", "e", " ", "w", "i", "t", "h", " ", "t", "h",
        "e", " ", "m", "a", "i", "n", " ", "t", "e", "c", "h", "n", "o", "l", "o", "g",
        "i", "e", "s", " ", "m", "e", "n", "t", "i", "o", "n", "e", "d", " ", "i", "n",
        " ", "t", "h", "i", "s", " ", "j", "o", "b", " ", "d", "e", "s", "c", "r", "i",
        "p", "t", "i", "o", "n", ".">>,
      <<"M", "e", "d", "i", "u", "m">>,
      <<"J", "o", "b", "-", "S", "p", "e", "c", "i", "f", "i", "c", " ", "S", "k", "i",
        "l", "l", "s">>),
    InterviewQuestion(
      <<"B", "e", "h", "a", "v", "i", "o", "r", "a", "l">>,
      <<"T", "e", "l", "l", " ", "m", "e", " ", "a", "b", "o", "u", "t", " ", "a", " ",
        "t", "i", "m", "e", " ", "y", "o", "u", " ", "h", "a", "d", " ", "t", "o", " ",
        "s", "o", "l", "v", "e", " ", "a", " ", "p", "r", "o", "b", "l", "e", "m", " ",
        "u", "n", "d", "e", "r", " ", "p", "r", "e", "s", "s", "u", "r", "e", ".">>,
      <<"M", "e", "d", "i", "u", "m">>,
      <<"P", "r", "o", "b", "l", "e", "m", " ", "S", "o", "l", "v", "i", "n", "g">>),
    InterviewQuestion(
      <<"E", "x", "p", "e", "r", "i", "e", "n", "c", "e">>,
      <<"W", "h", "a", "t", "'", "s", " ", "t", "h", "e", " ", "m", "o", "s", "t", " ",
        "c", "o", "m", "p", "l", "e", "x", " ", "t", "e", "c", "h", "n", "i", "c", "a",
        "l", " ", "c", "h", "a", "l", "l", "e", "n", "g", "e", " ", "y", "o", "u", "'",
        "v", "e", " ", "f", "a", "c", "e", "d", " ", "a", "n", "d", " ", "h", "o", "w",
        " ", "d", "i", "d", " ", "y", "o", "u", " ", "o", "v", "e", "r", "c", "o", "m",
        "e", " ", "i", "t", "?">>,
      <<"H", "a", "r", "d">>,
      <<"T", "e", "c", "h", "n", "i", "c", "a", "l", " ", "P", "r", "o", "b", "l", "e",
        "m", " ", "S", "o", "l", "v", "i", "n", "g">>),
    InterviewQuestion(
      <<"T", "e", "c", "h", "n", "i", "c", "a", "l">>,
      <<"H", "o", "w", " ", "d", "o", " ", "y", "o", "u", " ", "e", "n", "s", "u", "r",
        "e", " ", "c", "o", "d", "e", " ", "q", "u", "a", "l", "i", "t", "y", " ", "a",
        "n", "d", " ", "m", "a", "i", "n", "t", "a", "i", "n", "a", "b", "i", "l", "i",
        "t", "y", " ", "i", "n", " ", "y", "o", "u", "r", " ", "p", "r", "o", "j", "e",
        "c", "t", "s", "?">>,
      <<"M", "e", "d", "i", "u", "m">>,
      <<"B", "e", "s", "t", " ", "P", "r", "a", "c", "t", "i", "c", "e", "s">>),
    InterviewQuestion(
      <<"B", "e", "h", "a", "v", "i", "o", "r", "a", "l">>,
      <<"D", "e", "s", "c", "r", "i", "b", "e", " ", "a", " ", "s", "i", "t", "u", "a",
        "t", "i", "o", "n", " ", "w", "h", "e", "r", "e", " ", "y", "o", "u", " ", "h",
        "a", "d", " ", "t", "o", " ", "c", "o", "l", "l", "a", "b", "o", "r", "a", "t",
        "e", " ", "w", "i", "t", "h", " ", "t", "e", "a", "m", " ", "m", "e", "m", "b",
        "e", "r", "s", " ", "w", "h", "o", " ", "h", "a", "d", " ", "d", "i", "f", "f",
        "e", "r", "e", "n", "t", " ", "o", "p", "i", "n", "i", "o", "n", "s", ".">>,
      <<"M", "e", "d", "i", "u", "m">>,
      <<"T", "e", "a", "m", "w", "o", "r", "k">>),
    InterviewQuestion(
      <<"E", "x", "p", "e", "r", "i", "e", "n", "c", "e">>,
      <<"T", "e", "l", "l", " ", "m", "e", " ", "a", "b", "o", "u", "t", " ", "a", " ",
        "t", "i", "m", "e", " ", "y", "o", "u", " ", "h", "a", "d", " ", "t", "o", " ",
        "q", "u", "i", "c", "k", "l", "y", " ", "a", "d", "a", "p", "t", " ", "t", "o",
        " ", "n", "e", "w", " ", "r", "e", "q", "u", "i", "r", "e", "m", "e", "n", "t",
        "s", " ", "o", "r", " ", "c", "h", "a", "n", "g", "e", "s", ".">>,
      <<"M", "e", "d", "i", "u", "m">>,
      <<"A", "d", "a", "p", "t", "a", "b", "i", "l", "i", "t", "y">>),
    InterviewQuestion(
      <<"T", "e", "c", "h", "n", "i", "c", "a", "l">>,
      <<"W", "h", "a", "t", " ", "d", "e", "v", "e", "l", "o", "p", "m", "e", "n", "t",
        " ", "t", "o", "o", "l", "s", " ", "a", "n", "d", " ", "m", "e", "t", "h", "o",
        "d", "o", "l", "o", "g", "i", "e", "s", " ", "d", "o", " ", "y", "o", "u", " ",
        "p", "r", "e", "f", "e", "r", " ", "a", "n", "d", " ", "w", "h", "y", "?">>,
      <<"E", "a", "s", "y">>,
      <<"D", "e", "v", "e", "l", "o", "p", "m", "e", "n", "t", " ", "P", "r", "o", "c",
        "e", "s", "s">>)
  >>

\* fewer parsed records than this bring in the fallback list
FallbackThreshold == 3

\* the body of the parser's loop for one line: the records it appends
ParseLineLoose(raw) ==
    LET stripped == Strip(raw)
    IN  IF stripped = << >> THEN << >>
        ELSE IF Contains(stripped, "[") /\ Contains(stripped, "]") /\ Contains(stripped, "|")
        THEN LET bracket_start == Find(stripped, "[")
                 bracket_end == Find(stripped, "]")
             IN  IF bracket_start # -1 /\ bracket_end # -1
                 THEN LET bracket_content == Slice(stripped, bracket_start + 1, bracket_end)
                          question_text == Strip(SliceFrom(stripped, bracket_end + 1))
                          parts == StripAll(Split(bracket_content, "|"))
                      IN  IF Len(parts) >= 2 /\ question_text # << >>
                          THEN <<InterviewQuestion(parts[1], question_text, parts[2],
                                                   IF Len(parts) >= 3 THEN parts[3] ELSE << >>)>>
                          ELSE << >>
                 ELSE << >>
        ELSE << >>

ParseLine(raw) ==
    LET stripped == Strip(raw)
    IN  IF stripped = << >> THEN << >>
        ELSE IF Contains(stripped, "[") /\ Contains(stripped, "]") /\ Contains(stripped, "|")
        THEN LET bracket_start == Find(stripped, "[")
                 bracket_end == Find(stripped, "]")
             IN  IF bracket_start # -1 /\ bracket_end # -1
                 THEN LET bracket_content == Slice(stripped, bracket_start + 1, bracket_end)
                          question_text == Strip(SliceFrom(stripped, bracket_end + 1))
                          parts == StripAll(Split(bracket_content, "|"))
                      IN  IF Len(parts) >= 3 /\ question_text # << >>
                          THEN <<InterviewQuestion(parts[1], question_text, parts[2], parts[3])>>
                          ELSE << >>
                 ELSE << >>
        ELSE << >>

\* the parser's loop over the lines of the reply
RECURSIVE ParseLines(_)
ParseLines(lines) ==
    IF lines = << >> THEN << >>
    ELSE ParseLine(Head(lines)) \o ParseLines(Tail(lines))

NeedsFallbackOnlyWhenEmpty(parsed) == Len(parsed) = 0

NeedsFallbackInclusive(parsed) == Len(parsed) <= FallbackThreshold

\* whether the fallback list is brought in
NeedsFallback(parsed) == Len(parsed) < FallbackThreshold

BackfillNothing(parsed, n) == parsed

\* questions.extend(fallback_questions[:max(0, num_questions - len(questions))])
Backfill(parsed, n) ==
    parsed \o Slice(fallback_questions, 0, Max(0, n - Len(parsed)))

TruncateNever(qs, n) == qs

\* questions[:num_questions] if questions else []
Truncate(qs, n) == IF qs # << >> THEN Slice(qs, 0, n) ELSE << >>

parse_gemini_questions(text, n) ==
    LET parsed == ParseLines(Split(text, "\n"))
    IN  Truncate(IF NeedsFallback(parsed) THEN Backfill(parsed, n) ELSE parsed, n)

----------------------------------------------------------------------------
(* The prompt *)

\* the leading characters of the resume text the template embeds
ResumeBudget == 2000

Digits == <<"0", "1", "2", "3", "4", "5", "6", "7", "8", "9">>

\* str(n) for n >= 0, as the f-string formats num_questions
RECURSIVE IntToStr(_)
IntToStr(n) ==
    IF n < 10 THEN <<Digits[n + 1]>>
    ELSE IntToStr(n \div 10) \o <<Digits[(n % 10) + 1]>>

\* enhanced_prompt: the context block, and the company line when one is given
EnhancedPrompt(experience, interview, focus, company) ==
    ContextText0 \o experience \o ContextText1 \o interview \o ContextText2
        \o focus \o ContextText3
        \o (IF company # << >> THEN CompanyLabel \o company ELSE << >>)

\* the f-string of generate_questions_with_gemini
BuildPrompt(resume, job, skills, n) ==
    PromptText0 \o IntToStr(n) \o PromptText1 \o Slice(resume, 0, ResumeBudget)
        \o PromptText2 \o job \o PromptText3 \o skills
        \o PromptText4 \o IntToStr(n) \o PromptText5 \o IntToStr(n) \o PromptText6

\* the call in main(): the context is appended to the resume text
PromptOfCall(resume, experience, interview, focus, company, job, skills, n) ==
    BuildPrompt(resume \o EnhancedPrompt(experience, interview, focus, company),
                job, skills, n)

----------------------------------------------------------------------------
(* The session: st.session_state and one run of main() *)

\* the placeholder main() refuses as an API key
StrPlaceholder ==
    <<"Y", "O", "U", "R", "_", "G", "E", "M", "I", "N", "I", "_", "A", "P", "I", "_",
      "K", "E", "Y", "_", "H", "E", "R", "E">>

\* not api_key or api_key == "YOUR_GEMINI_API_KEY_HERE", negated
KeyConfigured(api_key) == api_key # << >> /\ api_key # StrPlaceholder

\* an uploaded file: whether PdfReader can decode it, and its pages' texts
NoUpload == [present |-> FALSE, readable |-> FALSE, pages |-> << >>]
Upload(readable, pages) == [present |-> TRUE, readable |-> readable, pages |-> pages]

RECURSIVE Concat(_)
Concat(texts) == IF texts = << >> THEN << >> ELSE Head(texts) \o Concat(Tail(texts))

\* extract_text_from_pdf: the pages' texts concatenated, or None after st.error
extract_text_from_pdf(uploaded_file) ==
    IF uploaded_file.readable
    THEN [ok |-> TRUE, text |-> Concat(uploaded_file.pages)]
    ELSE [ok |-> FALSE, text |-> << >>]

\* the script's block under __main__: the two keys are set when absent
InitSessionState(ss) ==
    LET withQuestions == IF "generated_questions" \in DOMAIN ss THEN ss
                         ELSE ("generated_questions" :> << >>) @@ ss
    IN  IF "show_questions" \in DOMAIN withQuestions THEN withQuestions
        ELSE ("show_questions" :> FALSE) @@ withQuestions

\* del st.session_state.<key>, guarded by "key in st.session_state"
DeleteKey(ss, key) == [k \in DOMAIN ss \ {key} |-> ss[k]]

\* st.session_state.get('generated_questions'), None read as the empty list
StoredQuestions(ss) ==
    IF "generated_questions" \in DOMAIN ss THEN ss["generated_questions"] ELSE << >>

\* st.session_state.get('show_questions'), None read as False
ShowFlag(ss) == "show_questions" \in DOMAIN ss /\ ss["show_questions"]

\* the condition of the results section
Shown(ss) == ShowFlag(ss) /\ StoredQuestions(ss) # << >>

StoreBatchAlways(ss, batch) ==
    ("generated_questions" :> batch) @@ ("show_questions" :> TRUE) @@ ss

StoreBatchAppend(ss, batch) ==
    IF batch # << >>
    THEN ("generated_questions" :> (StoredQuestions(ss) \o batch))
            @@ ("show_questions" :> TRUE) @@ ss
    ELSE ss

StoreBatchWithoutFlag(ss, batch) ==
    IF batch # << >> THEN ("generated_questions" :> batch) @@ ss ELSE ss

\* if questions: store them and set the flag; else: nothing is stored
StoreBatch(ss, batch) ==
    IF batch # << >>
    THEN ("generated_questions" :> batch) @@ ("show_questions" :> TRUE) @@ ss
    ELSE ss

\* the validation of the Generate handler, in its order: the first failing
\* check's message, "ok" when the external call is reached
Validation(api_key, uploaded_resume, job, skills) ==
    IF ~KeyConfigured(api_key) THEN "error_api_key"
    ELSE IF ~uploaded_resume.present THEN "error_no_resume"
    ELSE IF Strip(job) = << >> THEN "error_no_job_description"
    ELSE IF Strip(skills) = << >> THEN "error_no_skills"
    ELSE IF extract_text_from_pdf(uploaded_resume).text = << >> THEN "error_extract"
    ELSE "ok"

\* what a rejected Generate run writes to the page
RejectionMessages(reject, uploaded_resume) ==
    {reject}
        \cup (IF reject = "error_api_key" THEN {"info_api_key"} ELSE {})
        \cup (IF reject = "error_extract" /\ ~uploaded_resume.readable
              THEN {"error_reading_pdf"} ELSE {})

ErrorMessages ==
    {"error_api_key", "error_no_resume", "error_no_job_description", "error_no_skills",
     "error_reading_pdf", "error_extract", "error_gemini", "error_failed"}

\* the options of the two filter widgets
DifficultyOptions == {StrAll, StrEasy, StrMedium, StrHard}
CategoryOptions(qs) == {StrAll} \cup {qs[i].category : i \in 1..Len(qs)}

FilterQuestionsByDifficultyOnly(qs, difficulty, category) ==
    IF difficulty # StrAll THEN SelectSeq(qs, LAMBDA q : q.difficulty = difficulty) ELSE qs

\* the two list comprehensions of "Apply filters"
FilterQuestions(qs, difficulty, category) ==
    LET byDifficulty == IF difficulty # StrAll
                        THEN SelectSeq(qs, LAMBDA q : q.difficulty = difficulty)
                        ELSE qs
    IN  IF category # StrAll
        THEN SelectSeq(byDifficulty, LAMBDA q : q.category = category)
        ELSE byDifficulty

JsonExportZeroBased(filtered) ==
    [i \in 1..Len(filtered) |->
        [question_number |-> i - 1, category |-> filtered[i].category,
         question |-> filtered[i].question, difficulty |-> filtered[i].difficulty,
         focus_area |-> filtered[i].focus_area]]

\* the list of objects json.dumps serialises: enumerate() counts from 0 and the
\* number is i+1. json.dumps writes each object's five members in this order and
\* each text as a JSON string, so the file holds exactly this list.
JsonExport(filtered) ==
    [k \in 1..Len(filtered) |->
        LET i == k - 1
        IN  [question_number |-> i + 1, category |-> filtered[k].category,
             question |-> filtered[k].question, difficulty |-> filtered[k].difficulty,
             focus_area |-> filtered[k].focus_area]]

\* the st.info of the results section
DisplayMessages(ss, difficulty, category) ==
    IF Shown(ss) /\ Len(FilterQuestions(StoredQuestions(ss), difficulty, category))
                        # Len(StoredQuestions(ss))
    THEN {"info_showing"} ELSE {}

\* the results section of a run that reaches it, with the filter widgets at
\* difficulty and category
Render(ss, difficulty, category) ==
    IF Shown(ss)
    THEN LET filtered == FilterQuestions(StoredQuestions(ss), difficulty, category)
         IN  /\ displayed' = TRUE
             /\ difficulty_filter' = difficulty
             /\ category_filter' = category
             /\ filtered_questions' = filtered
             /\ export_offered' = (filtered # << >>)
             /\ questions_json' = IF filtered # << >> THEN JsonExport(filtered) ELSE << >>
    ELSE /\ displayed' = FALSE
         /\ difficulty_filter' = StrAll
         /\ category_filter' = StrAll
         /\ filtered_questions' = << >>
         /\ export_offered' = FALSE
         /\ questions_json' = << >>

\* a run that returns before the results section renders nothing of it
RenderNothing ==
    /\ displayed' = FALSE
    /\ difficulty_filter' = StrAll
    /\ category_filter' = StrAll
    /\ filtered_questions' = << >>
    /\ export_offered' = FALSE
    /\ questions_json' = << >>

----------------------------------------------------------------------------
(* Bounds and input sets *)

MaxLineLen == 6
MaxReplyLines == 6
MinQuestions == 5
MaxQuestions == 15
DefaultQuestions == 10

SliderValues == MinQuestions..MaxQuestions

\* the characters a single line is drawn from
LineAlphabet == {"[", "]", "|", " ", "a"}
Lines == UNION {[1..k -> LineAlphabet] : k \in 0..MaxLineLen}

\* the lines a reply is assembled from: two well-formed, two that yield nothing
LineBlank == <<" ">>
ReplyLinePool == {LineRest, LineTeam, LineTwoParts, LineBlank}
Replies == UNION {[1..k -> ReplyLinePool] : k \in 0..MaxReplyLines}

\* the replies of the service within a session: nothing usable, one valid line,
\* three valid lines around a malformed one, more valid lines than any target
SessionReplies ==
    {<< >>,
     <<LineTwoParts, LineTeam>>,
     <<LineRest, LineTwoParts, LineTeam, LineRest>>,
     [i \in 1..(MinQuestions + 1) |-> IF i % 2 = 1 THEN LineRest ELSE LineTeam]}

\* the external calls that return, each with what generate_questions_with_gemini
\* makes of it: response.text, the parser's result, and whether the parser warned
ReturnedCalls ==
    {[reply |-> r, n |-> n, text |-> Join(r, "\n"),
      batch |-> parse_gemini_questions(Join(r, "\n"), n),
      warned |-> NeedsFallback(ParseLines(Split(Join(r, "\n"), "\n")))] :
        r \in SessionReplies, n \in SliderValues}

\* the form's inputs within a session
ApiKeys == {<< >>, StrPlaceholder, <<"k">>}
Uploads == {NoUpload, Upload(FALSE, << >>), Upload(TRUE, << >>),
            Upload(TRUE, <<<<"c", "v">>, <<" ">>>>)}
JobDescriptions == {<<" ">>, <<"j", "d">>}
SkillsInputs == {<< >>, <<"s", "q", "l">>}

\* the form's inputs that pass the Generate handler's validation
AcceptedForms ==
    {f \in ApiKeys \X Uploads \X JobDescriptions \X SkillsInputs :
        Validation(f[1], f[2], f[3], f[4]) = "ok"}

\* what the Generate handler writes for the inputs that fail it
Rejections ==
    {RejectionMessages(Validation(f[1], f[2], f[3], f[4]), f[2]) :
        f \in (ApiKeys \X Uploads \X JobDescriptions \X SkillsInputs) \ AcceptedForms}

\* resume texts of a few characters, just under the budget, and from the budget
\* up to MaxResumeOver characters over it
MaxResumeOver == 1
ResumeLengths ==
    {3, ResumeBudget - 1} \cup {ResumeBudget + k : k \in 0..MaxResumeOver}
ResumeTexts == {[i \in 1..len |-> IF i % 7 = 0 THEN " " ELSE "r"] : len \in ResumeLengths}

Selections(options) == {options[i] : i \in 1..Len(options)}
CompanyInfos == {<< >>, <<"F", "i", "n", "t", "e", "c", "h">>}

promptVars == <<resume_text, job_description, skills_input, experience_level,
                interview_type, technical_focus, company_info, prompt>>

sessionVars == <<session_state, clicked, messages, api_outcome, displayed,
                 difficulty_filter, category_filter, filtered_questions,
                 export_offered, questions_json>>

vars == <<line, line_records, response_lines, response_text, num_questions,
          questions, session_state, clicked, messages, api_outcome, displayed,
          difficulty_filter, category_filter, filtered_questions,
          export_offered, questions_json, resume_text, job_description,
          skills_input, experience_level, interview_type, technical_focus,
          company_info, prompt, phase>>

\* the form before anything is entered: empty texts, each selector at its
\* first option
FormStart ==
    /\ resume_text = << >>
    /\ job_description = << >>
    /\ skills_input = << >>
    /\ experience_level = ExperienceLevelOptions[1]
    /\ interview_type = InterviewTypeOptions[1]
    /\ technical_focus = TechnicalFocusOptions[1]
    /\ company_info = << >>
    /\ prompt = << >>

\* the page after the script's first run: nothing stored, nothing displayed
SessionStart ==
    /\ session_state = InitSessionState(<< >>)
    /\ clicked = "none"
    /\ messages = {}
    /\ api_outcome = "none"
    /\ displayed = FALSE
    /\ difficulty_filter = StrAll
    /\ category_filter = StrAll
    /\ filtered_questions = << >>
    /\ export_offered = FALSE
    /\ questions_json = << >>

----------------------------------------------------------------------------
(* The loop body applied to one line *)

InitLine ==
    /\ line \in Lines
    /\ line_records = << >>
    /\ response_lines = << >>
    /\ response_text = << >>
    /\ num_questions = DefaultQuestions
    /\ questions = << >>
    /\ phase = "input"
    /\ SessionStart
    /\ FormStart

ScanLine ==
    /\ phase = "input"
    /\ line_records' = ParseLine(line)
    /\ phase' = "done"
    /\ UNCHANGED <<line, response_lines, response_text, num_questions, questions>>
    /\ UNCHANGED sessionVars
    /\ UNCHANGED promptVars

SpecLine == InitLine /\ [][ScanLine]_vars

----------------------------------------------------------------------------
(* The parser applied to one reply *)

InitParse ==
    /\ response_lines \in Replies
    /\ response_text = Join(response_lines, "\n")
    /\ num_questions = DefaultQuestions
    /\ questions = << >>
    /\ line = << >>
    /\ line_records = << >>
    /\ phase = "input"
    /\ SessionStart
    /\ FormStart

ParseReply ==
    /\ phase = "input"
    /\ \E n \in SliderValues :
          /\ num_questions' = n
          /\ questions' = parse_gemini_questions(response_text, n)
    /\ phase' = "done"
    /\ UNCHANGED <<line, line_records, response_lines, response_text>>
    /\ UNCHANGED sessionVars
    /\ UNCHANGED promptVars

SpecParse == InitParse /\ [][ParseReply]_vars

----------------------------------------------------------------------------
(* The prompt composed for one filled-in form *)

InitPrompt ==
    /\ resume_text \in ResumeTexts
    /\ job_description = <<"j", "o", "b">>
    /\ skills_input = <<"s", "q", "l">>
    /\ experience_level \in Selections(ExperienceLevelOptions)
    /\ interview_type \in Selections(InterviewTypeOptions)
    /\ technical_focus \in Selections(TechnicalFocusOptions)
    /\ company_info \in CompanyInfos
    /\ prompt = << >>
    /\ num_questions = DefaultQuestions
    /\ line = << >>
    /\ line_records = << >>
    /\ response_lines = << >>
    /\ response_text = << >>
    /\ questions = << >>
    /\ phase = "input"
    /\ SessionStart

ComposePrompt ==
    /\ phase = "input"
    /\ \E n \in SliderValues :
          /\ num_questions' = n
          /\ prompt' = PromptOfCall(resume_text, experience_level, interview_type,
                                    technical_focus, company_info, job_description,
                                    skills_input, n)
    /\ phase' = "done"
    /\ UNCHANGED <<resume_text, job_description, skills_input, experience_level,
                   interview_type, technical_focus, company_info>>
    /\ UNCHANGED <<line, line_records, response_lines, response_text, questions>>
    /\ UNCHANGED sessionVars

SpecPrompt == InitPrompt /\ [][ComposePrompt]_vars

----------------------------------------------------------------------------
(* The session: each action is one user interaction and the run of main()  *)
(* it starts. Only the Generate handler's and the results section's        *)
(* messages are recorded.  response_lines, response_text and num_questions *)
(* are those of the last external call that returned.                      *)

Init ==
    /\ line = << >>
    /\ line_records = << >>
    /\ response_lines = << >>
    /\ response_text = << >>
    /\ num_questions = DefaultQuestions
    /\ questions = << >>
    /\ phase = "session"
    /\ SessionStart
    /\ FormStart

\* The filter widgets of a run that follows one which rendered them keep their
\* values (the category falls back to All when it is no longer an option); new
\* widgets start at their first option, All.
KeptDifficulty == IF displayed THEN difficulty_filter ELSE StrAll
KeptCategories(ss) ==
    {StrAll} \cup (IF displayed THEN {category_filter} \cap CategoryOptions(StoredQuestions(ss))
                   ELSE {})

\* Generate clicked, and a validation check fails: the handler returns
GenerateRejected ==
    /\ phase = "session"
    /\ \E rejection \in Rejections : messages' = rejection
    /\ clicked' = "generate"
    /\ api_outcome' = "none"
    /\ questions' = << >>
    /\ RenderNothing
    /\ UNCHANGED <<session_state, response_lines, response_text, num_questions>>
    /\ UNCHANGED <<line, line_records, phase>>
    /\ UNCHANGED promptVars

\* Generate clicked, validation passes and the external call raises:
\* generate_questions_with_gemini returns [] after st.error
GenerateRaised ==
    /\ phase = "session"
    /\ AcceptedForms # {}
    /\ \E category \in KeptCategories(session_state) :
          /\ questions' = << >>
          /\ session_state' = StoreBatch(session_state, << >>)
          /\ messages' = {"error_gemini", "error_failed"}
                            \cup DisplayMessages(session_state', KeptDifficulty, category)
          /\ Render(session_state', KeptDifficulty, category)
    /\ clicked' = "generate"
    /\ api_outcome' = "raised"
    /\ UNCHANGED <<response_lines, response_text, num_questions>>
    /\ UNCHANGED <<line, line_records, phase>>
    /\ UNCHANGED promptVars

\* Generate clicked, validation passes and the external call returns a reply
GenerateReturned ==
    /\ phase = "session"
    /\ AcceptedForms # {}
    /\ \E call \in ReturnedCalls :
          LET batch == call.batch
              stored == StoreBatch(session_state, batch)
          IN  /\ response_lines' = call.reply
              /\ response_text' = call.text
              /\ num_questions' = call.n
              /\ questions' = batch
              /\ session_state' = stored
              /\ \E category \in KeptCategories(stored) :
                    /\ messages' =
                          (IF call.warned THEN {"warning_fallback"} ELSE {})
                          \cup (IF batch # << >> THEN {"success_generated"}
                                ELSE {"error_failed"})
                          \cup DisplayMessages(stored, KeptDifficulty, category)
                    /\ Render(stored, KeptDifficulty, category)
    /\ clicked' = "generate"
    /\ api_outcome' = "returned"
    /\ UNCHANGED <<line, line_records, phase>>
    /\ UNCHANGED promptVars

\* any other widget is changed: a run with no button clicked, the filter
\* widgets (when on the page) at the values the user left them at
Interact ==
    /\ phase = "session"
    /\ \E difficulty \in DifficultyOptions,
          category \in CategoryOptions(StoredQuestions(session_state)) :
          /\ ~displayed => (difficulty = StrAll /\ category = StrAll)
          /\ messages' = DisplayMessages(session_state, difficulty, category)
          /\ Render(session_state, difficulty, category)
    /\ clicked' = "none"
    /\ api_outcome' = "none"
    /\ questions' = << >>
    /\ UNCHANGED <<session_state, response_lines, response_text, num_questions>>
    /\ UNCHANGED <<line, line_records, phase>>
    /\ UNCHANGED promptVars

\* the buttons of the results section that change nothing: Clear All Filters
\* (st.rerun(), the widgets keep their values), Copy Questions and the two
\* downloads
PressButton ==
    /\ phase = "session"
    /\ displayed
    /\ \E button \in {"clear_filters", "copy", "download_json", "download_study_guide"} :
          /\ button # "clear_filters" => export_offered
          /\ clicked' = button
    /\ messages' = DisplayMessages(session_state, difficulty_filter, category_filter)
    /\ Render(session_state, difficulty_filter, category_filter)
    /\ api_outcome' = "none"
    /\ questions' = << >>
    /\ UNCHANGED <<session_state, response_lines, response_text, num_questions>>
    /\ UNCHANGED <<line, line_records, phase>>
    /\ UNCHANGED promptVars

\* Clear Questions clicked: both keys are deleted and st.rerun() runs the
\* script again, whose __main__ block sets the absent keys
Clear ==
    /\ phase = "session"
    /\ displayed /\ export_offered
    /\ LET deleted == DeleteKey(DeleteKey(session_state, "generated_questions"),
                                "show_questions")
           rerun == InitSessionState(deleted)
       IN  /\ session_state' = rerun
           /\ messages' = DisplayMessages(rerun, StrAll, StrAll)
           /\ Render(rerun, StrAll, StrAll)
    /\ clicked' = "clear"
    /\ api_outcome' = "none"
    /\ questions' = << >>
    /\ UNCHANGED <<response_lines, response_text, num_questions>>
    /\ UNCHANGED <<line, line_records, phase>>
    /\ UNCHANGED promptVars

Next ==
    \/ GenerateRejected
    \/ GenerateRaised
    \/ GenerateReturned
    \/ Interact
    \/ PressButton
    \/ Clear

Spec == Init /\ [][Next]_vars

----------------------------------------------------------------------------
(* What the specification says of a line, stated on positions of the line *)

\* the 1-based position of the first c in s, 0 when there is none
FirstPos(s, c) ==
    IF \E i \in 1..Len(s) : s[i] = c
    THEN CHOOSE i \in 1..Len(s) : s[i] = c /\ \A j \in 1..(i - 1) : s[j] # c
    ELSE 0

\* the positions strictly between the first "[" and the first "]"
HeaderPositions(s) == {i \in 1..Len(s) : FirstPos(s, "[") < i /\ i < FirstPos(s, "]")}

PipesIn(s) == {i \in HeaderPositions(s) : s[i] = "|"}

\* the position of the k-th pipe of the header
NthPipe(s, k) == CHOOSE p \in PipesIn(s) : Cardinality({q \in PipesIn(s) : q < p}) = k - 1

\* the k-th header part (k <= number of pipes), trimmed
HeaderPart(s, k) ==
    LET from == IF k = 1 THEN FirstPos(s, "[") ELSE NthPipe(s, k - 1)
    IN  Strip(SubSeq(s, from + 1, NthPipe(s, k) - 1))

\* the third header part ends at the third pipe, or at the bracket
ThirdPart(s) ==
    LET to == IF Cardinality(PipesIn(s)) >= 3 THEN NthPipe(s, 3) ELSE FirstPos(s, "]")
    IN  Strip(SubSeq(s, NthPipe(s, 2) + 1, to - 1))

TrailingText(s) == Strip(SubSeq(s, FirstPos(s, "]") + 1, Len(s)))

Accepted(s) ==
    /\ FirstPos(s, "[") > 0 /\ FirstPos(s, "]") > 0 /\ FirstPos(s, "|") > 0
    /\ Cardinality(PipesIn(s)) >= 2
    /\ TrailingText(s) # << >>

RecordOf(s) ==
    [category |-> HeaderPart(s, 1), difficulty |-> HeaderPart(s, 2),
     focus_area |-> ThirdPart(s), question |-> TrailingText(s)]

\* C4: a line yields a record exactly when it has "[", "]" and "|", its header
\* (between the first "[" and the first "]") has at least three parts and the
\* trimmed text after the first "]" is not empty; the record is the first three
\* trimmed parts and that text; any other line yields nothing.
LineAcceptance ==
    phase = "done" =>
        line_records = IF Accepted(line) THEN <<RecordOf(line)>> ELSE << >>

LineAcceptanceWitness ==
    /\ phase = "done"
    /\ Len(line_records) = 1
    /\ line_records[1].category = <<"a">>
    /\ line_records[1].difficulty = << >>

----------------------------------------------------------------------------
(* What the specification says of a reply, stated on the lines it is made of *)

FallbackCount == 10

RecRest == [category |-> StrTechnical, question |-> StrWhatisREST,
            difficulty |-> StrHard, focus_area |-> StrAPIs]
RecTeam == [category |-> StrBehavioral, question |-> StrWhy,
            difficulty |-> StrEasy, focus_area |-> StrGit]

\* the records of the well-formed lines among ls, in line order
RECURSIVE ValidRecords(_)
ValidRecords(ls) ==
    IF ls = << >> THEN << >>
    ELSE (IF Head(ls) = LineRest THEN <<RecRest>>
          ELSE IF Head(ls) = LineTeam THEN <<RecTeam>>
          ELSE << >>) \o ValidRecords(Tail(ls))

ValidCount == Len(ValidRecords(response_lines))

FallbackPrefix(m) == [i \in 1..Min(FallbackCount, m) |-> fallback_questions[i]]

\* C1: with k < 3 valid lines the result is the k parsed records in line order,
\* then the fallback list from its start until it is exhausted or the count is n;
\* with no valid line it is the first min(n, 10) fallback records.
BackfillRule ==
    (phase = "done" /\ ValidCount < 3) =>
        /\ questions = ValidRecords(response_lines)
                          \o FallbackPrefix(num_questions - ValidCount)
        /\ ValidCount = 0 =>
              /\ Len(questions) = Min(num_questions, 10)
              /\ \A i \in 1..Len(questions) : questions[i] = fallback_questions[i]

BackfillWitness ==
    /\ phase = "done"
    /\ ValidCount = 1
    /\ Len(response_lines) > 1
    /\ num_questions > 11
    /\ Len(questions) = 11

\* C2: with k >= 3 valid lines and n >= k the result is the k records of the
\* valid lines in line order, and no fallback record.
NoFallbackRule ==
    (phase = "done" /\ ValidCount >= 3 /\ num_questions >= ValidCount) =>
        /\ questions = ValidRecords(response_lines)
        /\ Len(questions) = ValidCount

NoFallbackWitness ==
    /\ phase = "done"
    /\ ValidCount = 3
    /\ Len(response_lines) = 5
    /\ response_lines[2] = LineTwoParts
    /\ questions = <<RecTeam, RecRest, RecTeam>>

\* C3: the result never has more than n records, and with k > n valid lines it
\* is the first n parsed records in line order.
TruncationRule ==
    phase = "done" =>
        /\ Len(questions) <= num_questions
        /\ ValidCount > num_questions =>
              questions = SubSeq(ValidRecords(response_lines), 1, num_questions)

TruncationWitness ==
    /\ phase = "done"
    /\ ValidCount > num_questions
    /\ Len(questions) = 5
    /\ questions[1] # questions[2]

----------------------------------------------------------------------------
(* What the specification says of the prompt *)

\* x occurs in s
Occurs(s, x) ==
    \E i \in 0..(Len(s) - Len(x)) : \A j \in 1..Len(x) : s[i + j] = x[j]

\* C8: the prompt holds the resume text cut to its budget, the job description,
\* the skills, and the context: experience level, interview type, technical
\* focus, and the company when one is given.
PromptCarriesInputs ==
    phase = "done" =>
        /\ Occurs(prompt, SubSeq(resume_text, 1, Min(Len(resume_text), ResumeBudget)))
        /\ Occurs(prompt, job_description)
        /\ Occurs(prompt, skills_input)
        /\ Occurs(prompt, experience_level)
        /\ Occurs(prompt, interview_type)
        /\ Occurs(prompt, technical_focus)
        /\ company_info # << >> => Occurs(prompt, company_info)

----------------------------------------------------------------------------
(* What the specification says of the session *)

Stored == StoredQuestions(session_state)

HasError(msgs) == msgs \cap ErrorMessages # {}

\* C5: a Generate run that ends in an error (a failed validation, a failed
\* extraction, a raising external call) shows an error message and leaves the
\* stored record set and the show flag as they were; a Generate run can still
\* succeed afterwards.
FailedGeneratePreserves ==
    /\ [][clicked' = "generate" =>
            /\ api_outcome' # "returned" => HasError(messages')
            /\ HasError(messages') => session_state' = session_state]_vars
    /\ [](phase = "session" => ENABLED GenerateReturned)

FailedGenerateWitness ==
    /\ clicked = "generate"
    /\ api_outcome = "raised"
    /\ "error_failed" \in messages
    /\ Len(Stored) = 5
    /\ displayed

\* the positions of the stored records the two filters let through
Matching(qs, difficulty, category) ==
    {i \in 1..Len(qs) :
        /\ difficulty = StrAll \/ qs[i].difficulty = difficulty
        /\ category = StrAll \/ qs[i].category = category}

\* C6: the filtered sequence is exactly the stored records that pass both
\* filters (All passes everything), in their stored order; with both filters
\* All it is the stored sequence.
FilterRule ==
    displayed =>
        /\ difficulty_filter \in {StrAll, StrEasy, StrMedium, StrHard}
        /\ category_filter = StrAll \/ \E i \in 1..Len(Stored) : Stored[i].category = category_filter
        /\ LET pass == Matching(Stored, difficulty_filter, category_filter)
           IN  /\ Len(filtered_questions) = Cardinality(pass)
               /\ \A i \in pass :
                     filtered_questions[Cardinality({j \in pass : j <= i})] = Stored[i]
        /\ (difficulty_filter = StrAll /\ category_filter = StrAll) =>
              filtered_questions = Stored

FilterWitness ==
    /\ displayed
    /\ difficulty_filter = StrMedium
    /\ category_filter = StrTechnical
    /\ Len(filtered_questions) = 2
    /\ Len(Stored) = 10

\* C7: the exported list has one entry per filtered record, the i-th with
\* question_number i and the four fields of the i-th filtered record; it is
\* built from the filtered sequence, not from the stored one.
ExportRule ==
    /\ export_offered =>
        /\ displayed
        /\ Len(questions_json) = Len(filtered_questions)
        /\ \A i \in 1..Len(filtered_questions) :
              /\ questions_json[i].question_number = i
              /\ questions_json[i].category = filtered_questions[i].category
              /\ questions_json[i].question = filtered_questions[i].question
              /\ questions_json[i].difficulty = filtered_questions[i].difficulty
              /\ questions_json[i].focus_area = filtered_questions[i].focus_area
    /\ (displayed /\ filtered_questions # << >>) => export_offered

ExportWitness ==
    /\ export_offered
    /\ clicked = "download_json"
    /\ Len(questions_json) = 3
    /\ Len(Stored) = 7
    /\ questions_json[1].question # Stored[1].question

GenerateSucceeded == clicked = "generate" /\ api_outcome = "returned" /\ questions # << >>

\* C9: a successful generation replaces the stored set with the new batch as a
\* whole; filter changes and exports leave the stored set as it is; Clear
\* empties it, and nothing is displayed until a generation succeeds again.
RecordSetLifecycle ==
    [][/\ GenerateSucceeded' => (StoredQuestions(session_state') = questions'
                                   /\ ShowFlag(session_state'))
       /\ clicked' \in {"none", "clear_filters", "copy", "download_json",
                        "download_study_guide"} => session_state' = session_state
       /\ clicked' = "clear" => StoredQuestions(session_state') = << >>
       /\ (Stored = << >> /\ ~GenerateSucceeded') =>
              (StoredQuestions(session_state') = << >> /\ ~displayed')
       /\ StoredQuestions(session_state') \in {Stored, questions', << >>}]_vars

RecordSetLifecycleWitness ==
    /\ GenerateSucceeded
    /\ difficulty_filter = StrHard
    /\ Stored = questions
    /\ Len(Stored) = 3
    /\ Len(filtered_questions) = 2

\* C10: the parser's result is never empty for a target count of at least 1, so
\* a Generate run whose external call returns stores a new non-empty record set,
\* and "Failed to generate questions" is shown only when that call raised.
ReturnedCallStores ==
    /\ (clicked = "generate" /\ api_outcome = "returned") =>
          /\ questions # << >>
          /\ Stored = questions
          /\ ShowFlag(session_state)
          /\ displayed
    /\ "error_failed" \in messages => api_outcome = "raised"

\* The parser alone, under SpecParse: for every reply and every target count of
\* the slider the result has at least one record (the first half of C10).
ParserNeverEmpty == phase = "done" => questions # << >>

ReturnedCallWitness ==
    /\ clicked = "generate"
    /\ api_outcome = "returned"
    /\ response_text = << >>
    /\ "warning_fallback" \in messages
    /\ Len(Stored) = 10

\* C11: in every state reached from the initial session (empty record set, flag
\* false) by Generate runs, filter changes and Clear, the show flag is true
\* exactly when the stored record set is not empty (an absent key reads as
\* false, as empty); the results section is never rendered with an empty set.
FlagMatchesStored ==
    phase = "session" =>
        /\ ShowFlag(session_state) <=> (Stored # << >>)
        /\ displayed => (Stored # << >>)

FlagMatchesStoredWitness ==
    /\ clicked = "clear"
    /\ DOMAIN session_state = {"generated_questions", "show_questions"}
    /\ ~ShowFlag(session_state)
    /\ Stored = << >>
    /\ ~displayed
    /\ response_text # << >>

====
